---- MODULE Spec2Model ----
(***************************************************************************)
(* Hydroponic telemetry generators of the ICP repository.                  *)
(*                                                                         *)
(*   src/Demo/demo2/motoko.py   HydroponicSystem, ICPClient.send_reading,  *)
(*                              simulate_readings                          *)
(*   src/Growa/contract/auto.py HydroponicDataSensor, insert_reading, main *)
(*                                                                         *)
(* Numbers.  The code computes with floats; the model computes with        *)
(* integers in units of 1/Scale (Scale = 10000), so 1.5 mS/cm is 15000 and *)
(* 900 PPFD is 9000000.  sin() is tabulated to three decimals.  The random *)
(* draws of the code (random.uniform, random.gauss) are inputs chosen from *)
(* small sets.  round(x, 2) is rounding to the nearest multiple of         *)
(* Scale/100, ties to even.                                                *)
(*                                                                         *)
(* Programs.  The repository holds separate scripts; a behaviour of the    *)
(* model is a run of one of them, chosen by `prog` in the initial state:   *)
(*   "motoko"  simulate_readings of motoko.py                              *)
(*   "auto"    main of auto.py                                             *)
(*   "sensor"  a HydroponicDataSensor constructed with arbitrary arguments *)
(*             and called repeatedly                                       *)
(***************************************************************************)
EXTENDS Integers, Sequences, FiniteSets, TLC

VARIABLES
    prog,           \* which script runs
    pc,             \* position of the running script
    now,            \* datetime.now(), in elapsed pacing intervals
    interrupted,    \* a KeyboardInterrupt was delivered
    current_state,  \* HydroponicSystem.current_state
    current_hour,   \* generate_reading's current_hour (-1: none read yet)
    readings,       \* the Snapshot generate_reading returned last
    result,         \* what send_reading / insert_reading returned last
    sensors,        \* entity id -> HydroponicDataSensor fields
    idx,            \* auto.py main: which of the four insert lines is next
    value,          \* what get_next_value returned last
    inserted        \* what insert_reading returned last

vars == <<prog, pc, now, interrupted, current_state, current_hour, readings,
          result, sensors, idx, value, inserted>>

----------------------------------------------------------------------------
(* Bounds of the model *)

\* end_time, in pacing intervals after start_time (the code: 60 min / 5 min)
EndTime == 3

\* calls of get_next_value made on the sensor constructed by "sensor"
MaxCalls == 3

\* units per 1.0
Scale == 100 * 100

\* hours of the day datetime.now().hour is drawn from: night, dawn, light
\* peak, air-temperature peak, last daylight hour, dusk
Hours == {0, 6, 12, 14, 17, 18}

\* random.uniform(0, 10) at night
NightDraws == {0, 5 * Scale, 10 * Scale}

\* one parameter's pair of draws in _apply_random_drift:
\* <<random.uniform(-drift, drift) / drift, random.gauss(0, noise) / noise>>
\* (CPython's gauss stays within about 8.5 standard deviations)
DrawPairs == {<<-1, -8>>, <<-1, 0>>, <<0, 0>>, <<1, 0>>, <<1, 8>>}

Lo == <<-1, -8>>
Zero == <<0, 0>>
Hi == <<1, 8>>

\* the draws of the four parameters the oscillator overwrites
RestDraws ==
    { [water_temp |-> Zero, air_temp |-> Zero, humidity |-> Zero, light |-> Zero],
      [water_temp |-> Hi,   air_temp |-> Hi,   humidity |-> Hi,   light |-> Hi],
      [water_temp |-> Lo,   air_temp |-> Lo,   humidity |-> Lo,   light |-> Lo],
      [water_temp |-> Lo,   air_temp |-> Lo,   humidity |-> Hi,   light |-> Zero],
      [water_temp |-> Hi,   air_temp |-> Hi,   humidity |-> Lo,   light |-> Zero] }

----------------------------------------------------------------------------
(* Arithmetic *)

\* round(1000 * sin(pi * k / 12)), k = 0..23
Sin12 ==
    <<0, 259, 500, 707, 866, 966, 1000, 966, 866, 707, 500, 259,
      0, -259, -500, -707, -866, -966, -1000, -966, -866, -707, -500, -259>>

\* Scale * sin(pi * k / 12)
sin_pi_12(k) == (Scale \div 1000) * Sin12[k + 1]

Max(a, b) == IF a >= b THEN a ELSE b
Min(a, b) == IF a <= b THEN a ELSE b

\* round(x, 2): nearest multiple of Scale/100, ties to even
round2(x) ==
    LET u == Scale \div 100
        q == x \div u
        r == x % u
    IN  IF 2 * r < u THEN q * u
        ELSE IF 2 * r > u THEN (q + 1) * u
        ELSE IF q % 2 = 0 THEN q * u ELSE (q + 1) * u

----------------------------------------------------------------------------
(* HydroponicSystem *)

Params == {"ec", "ph", "water_temp", "air_temp", "humidity", "light"}

InitialState ==
    [ec |-> 15000, ph |-> 60000, water_temp |-> 220000,
     air_temp |-> 250000, humidity |-> 600000, light |-> 5000000]

variation_params ==
    [ec         |-> [drift |-> 1000,   noise |-> 500],
     ph         |-> [drift |-> 500,    noise |-> 200],
     water_temp |-> [drift |-> 2000,   noise |-> 1000],
     air_temp   |-> [drift |-> 5000,   noise |-> 2000],
     humidity   |-> [drift |-> 10000,  noise |-> 5000],
     light      |-> [drift |-> 500000, noise |-> 200000]]

limits ==
    [ec         |-> [min |-> 8000,    max |-> 30000],
     ph         |-> [min |-> 55000,   max |-> 65000],
     water_temp |-> [min |-> 180000,  max |-> 260000],
     air_temp   |-> [min |-> 200000,  max |-> 300000],
     humidity   |-> [min |-> 500000,  max |-> 700000],
     light      |-> [min |-> 1000000, max |-> 10000000]]

\* _apply_daily_cycle with the light sine taken of hour, not of day_progress
apply_daily_cycle_unshifted(cs, hour, night) ==
    LET day_progress == (hour - 6) % 24
    IN  [cs EXCEPT
            !.light = IF 6 <= hour /\ hour < 18
                      THEN 500 * Scale + 400 * sin_pi_12(hour)
                      ELSE night,
            !.air_temp = 25 * Scale + 3 * sin_pi_12((day_progress - 2) % 24),
            !.water_temp = 22 * Scale + 2 * sin_pi_12((day_progress - 4) % 24),
            !.humidity = 60 * Scale - 5 * sin_pi_12(day_progress)]

\* _apply_daily_cycle adding its terms to the stored values (+= for =) of
\* air_temp, water_temp and humidity
apply_daily_cycle_additive(cs, hour, night) ==
    LET day_progress == (hour - 6) % 24
    IN  [cs EXCEPT
            !.light = IF 6 <= hour /\ hour < 18
                      THEN 500 * Scale + 400 * sin_pi_12(day_progress)
                      ELSE night,
            !.air_temp = @ + 3 * sin_pi_12((day_progress - 2) % 24),
            !.water_temp = @ + 2 * sin_pi_12((day_progress - 4) % 24),
            !.humidity = @ - 5 * sin_pi_12(day_progress)]

\* _apply_daily_cycle(hour); night is the value random.uniform(0, 10) returns
apply_daily_cycle(cs, hour, night) ==
    LET day_progress == (hour - 6) % 24
        light_factor == sin_pi_12(day_progress)
        temp_factor == sin_pi_12((day_progress - 2) % 24)
        water_temp_factor == sin_pi_12((day_progress - 4) % 24)
        humidity_factor == -sin_pi_12(day_progress)
    IN  [cs EXCEPT
            !.light = IF 6 <= hour /\ hour < 18
                      THEN 500 * Scale + 400 * light_factor
                      ELSE night,
            !.air_temp = 25 * Scale + 3 * temp_factor,
            !.water_temp = 22 * Scale + 2 * water_temp_factor,
            !.humidity = 60 * Scale + 5 * humidity_factor]

\* random.uniform(-drift, drift) + random.gauss(0, noise) for one parameter
change(param, pair) ==
    pair[1] * variation_params[param].drift + pair[2] * variation_params[param].noise

\* drift_one without the clamp of lines 63-67
drift_one_unclamped(param, v, pair) == v + change(param, pair)

\* the body of _apply_random_drift's loop for one parameter
drift_one(param, v, pair) ==
    Max(limits[param].min, Min(limits[param].max, v + change(param, pair)))

\* _apply_random_drift(); d gives every parameter its pair of draws
apply_random_drift(cs, d) ==
    [p \in Params |-> drift_one(p, cs[p], d[p])]

\* _apply_correlations with the sign of the ph coupling flipped (0.1 for -0.1)
apply_correlations_flipped(cs) ==
    LET ph_change == (cs.ec - 15000) \div 10
        humidity_change == (25 * Scale - cs.air_temp) \div 2
    IN  [cs EXCEPT
            !.ph = Max(55000, Min(65000, cs.ph + ph_change)),
            !.humidity = Max(50 * Scale, Min(70 * Scale, cs.humidity + humidity_change))]

\* _apply_correlations()
apply_correlations(cs) ==
    LET ph_change == ((cs.ec - 15000) * (-1)) \div 10
        new_ph == Max(55000, Min(65000, cs.ph + ph_change))
        humidity_change == (25 * Scale - cs.air_temp) \div 2
        new_humidity == Max(50 * Scale, Min(70 * Scale, cs.humidity + humidity_change))
    IN  [cs EXCEPT !.ph = new_ph, !.humidity = new_humidity]

Reading(type, v, unit) ==
    [readingType |-> type, readingValue |-> v, readingUnit |-> unit]

\* the readings list with the two temperatures in each other's place
make_readings_swapped(cs) ==
    << Reading("ec", round2(cs.ec), "mS/cm"),
       Reading("ph", round2(cs.ph), "pH"),
       Reading("water_temperature", round2(cs.air_temp), "C"),
       Reading("air_temperature", round2(cs.water_temp), "C"),
       Reading("humidity", round2(cs.humidity), "%"),
       Reading("light", round2(cs.light), "PPFD") >>

\* the readings list generate_reading builds and returns
make_readings(cs) ==
    << Reading("ec", round2(cs.ec), "mS/cm"),
       Reading("ph", round2(cs.ph), "pH"),
       Reading("water_temperature", round2(cs.water_temp), "C"),
       Reading("air_temperature", round2(cs.air_temp), "C"),
       Reading("humidity", round2(cs.humidity), "%"),
       Reading("light", round2(cs.light), "PPFD") >>

----------------------------------------------------------------------------
(* HydroponicDataSensor of auto.py *)

\* round(0.3 * Scale * sin(0.5 * t)), t = 0..15
Sin05 ==
    <<0, 1438, 2524, 2992, 2728, 1795, 423, -1052, -2270, -2933, -2877,
      -2117, -838, 645, 1971, 2814>>

\* random.uniform(-volatility, volatility) / volatility
UniformDraws == {-1, 0, 1}

\* arguments the "sensor" program constructs its sensor with
SensorBases == {50000, 60000, 70000}
SensorMins == {55000, 65000}
SensorMaxs == {55000, 65000}
SensorVolatilities == {2000, 30000}

\* HydroponicDataSensor.__init__
sensor_init(base_value, min_value, max_value, volatility) ==
    [base_value |-> base_value, min_value |-> min_value,
     max_value |-> max_value, volatility |-> volatility,
     current_value |-> base_value, time_index |-> 0]

\* new_value without the clamp of line 46
new_value_unclamped(s, r) ==
    s.current_value + Sin05[s.time_index + 1] + r * s.volatility

\* get_next_value: new_value after "Mantieni il valore entro i limiti"
new_value(s, r) ==
    LET cycle_factor == Sin05[s.time_index + 1]
        random_factor == r * s.volatility
        raw == s.current_value + cycle_factor + random_factor
    IN  Max(s.min_value, Min(raw, s.max_value))

\* get_next_value: the sensor after the call
get_next_value(s, r) ==
    [s EXCEPT !.current_value = new_value(s, r), !.time_index = s.time_index + 1]

\* get_next_value: the value the call returns
returned_value(s, r) == round2(new_value(s, r))

\* the four sensors main constructs
MainSensors ==
    [e \in {"11", "12", "13", "14"} |->
        CASE e = "11" -> sensor_init(18500000, 12000000, 25000000, 500000)
          [] e = "12" -> sensor_init(60000, 55000, 65000, 2000)
          [] e = "13" -> sensor_init(225000, 200000, 250000, 5000)
          [] e = "14" -> sensor_init(650000, 600000, 700000, 20000)]

Entity == <<"11", "12", "13", "14">>

----------------------------------------------------------------------------
(* simulate_readings of motoko.py *)

NoResult == [success |-> TRUE, data |-> "none"]

Init ==
    /\ prog \in {"motoko", "auto", "sensor"}
    /\ pc = "loop"
    /\ now = 0
    /\ interrupted = FALSE
    /\ current_state = InitialState
    /\ current_hour = -1
    /\ readings = <<>>
    /\ result = NoResult
    /\ sensors = IF prog = "auto" THEN MainSensors ELSE <<>>
    /\ idx = 0
    /\ value = 0
    /\ inserted = "unset"

\* while datetime.now() < end_time
LoopTest ==
    /\ prog = "motoko"
    /\ pc = "loop"
    /\ pc' = IF now < EndTime THEN "cycle" ELSE "done"
    /\ UNCHANGED <<prog, now, interrupted, current_state, current_hour,
                   readings, result, sensors, idx, value, inserted>>

\* generate_reading: current_hour = datetime.now().hour; _apply_daily_cycle
DailyCycle ==
    /\ pc = "cycle"
    /\ \E hour \in Hours, night \in NightDraws :
          /\ current_hour' = hour
          /\ current_state' = apply_daily_cycle(current_state, hour, night)
    /\ pc' = "drift"
    /\ UNCHANGED <<prog, now, interrupted, readings, result, sensors, idx,
                   value, inserted>>

\* generate_reading: _apply_random_drift
RandomDrift ==
    /\ pc = "drift"
    /\ \E de \in DrawPairs, dp \in DrawPairs, rest \in RestDraws :
          current_state' =
              apply_random_drift(current_state,
                  [p \in Params |->
                      IF p = "ec" THEN de ELSE IF p = "ph" THEN dp ELSE rest[p]])
    /\ pc' = "corr"
    /\ UNCHANGED <<prog, now, interrupted, current_hour, readings, result,
                   sensors, idx, value, inserted>>

\* generate_reading: _apply_correlations
Correlations ==
    /\ pc = "corr"
    /\ current_state' = apply_correlations(current_state)
    /\ pc' = "emit"
    /\ UNCHANGED <<prog, now, interrupted, current_hour, readings, result,
                   sensors, idx, value, inserted>>

\* generate_reading: build the readings and return them
Emit ==
    /\ pc = "emit"
    /\ readings' = make_readings(current_state)
    /\ pc' = "send"
    /\ UNCHANGED <<prog, now, interrupted, current_state, current_hour,
                   result, sensors, idx, value, inserted>>

\* send_reading: agent.update_raw answered
send_reading_ok ==
    /\ result' = [success |-> TRUE, data |-> "response"]
    /\ pc' = "sleep"
    /\ UNCHANGED <<prog, now, interrupted, current_state, current_hour,
                   readings, sensors, idx, value, inserted>>

\* send_reading whose failure restores the system's initial state
send_reading_fail_rollback ==
    /\ result' = [success |-> FALSE, error |-> "exception"]
    /\ current_state' = InitialState
    /\ pc' = "sleep"
    /\ UNCHANGED <<prog, now, interrupted, current_hour, readings, sensors,
                   idx, value, inserted>>

\* send_reading without its except clause, in a loop that does not catch:
\* the exception ends the run
send_reading_fail_raise ==
    /\ pc' = "done"
    /\ UNCHANGED <<prog, now, interrupted, current_state, current_hour,
                   readings, result, sensors, idx, value, inserted>>

\* send_reading: an Exception inside the try block
send_reading_fail ==
    /\ result' = [success |-> FALSE, error |-> "exception"]
    /\ pc' = "sleep"
    /\ UNCHANGED <<prog, now, interrupted, current_state, current_hour,
                   readings, sensors, idx, value, inserted>>

SendOk == pc = "send" /\ send_reading_ok

SendFail == pc = "send" /\ send_reading_fail

\* time.sleep(interval_minutes * 60), which ends the loop body: its locals
\* readings and result are not read again before they are reassigned
Sleep ==
    /\ prog = "motoko"
    /\ pc = "sleep"
    /\ now' = now + 1
    /\ pc' = "loop"
    /\ readings' = <<>>
    /\ result' = NoResult
    /\ UNCHANGED <<prog, interrupted, current_state, current_hour, sensors,
                   idx, value, inserted>>

\* KeyboardInterrupt inside the loop body: "Simulation stopped by user", break
Interrupt ==
    /\ prog = "motoko"
    /\ pc \in {"cycle", "drift", "corr", "emit", "send", "sleep"}
    /\ interrupted' = TRUE
    /\ pc' = "done"
    /\ UNCHANGED <<prog, now, current_state, current_hour, readings, result,
                   sensors, idx, value, inserted>>

----------------------------------------------------------------------------
(* main of auto.py *)

\* while datetime.now() < end_time
MainLoopTest ==
    /\ prog = "auto"
    /\ pc = "loop"
    /\ pc' = IF now < EndTime THEN "insert" ELSE "done"
    /\ idx' = IF now < EndTime THEN 1 ELSE idx
    /\ UNCHANGED <<prog, now, interrupted, current_state, current_hour,
                   readings, result, sensors, value, inserted>>

\* logger.insert_reading(id, sensor.get_next_value()); ret is what
\* insert_reading returns
insert_line(r, ret) ==
    /\ sensors' = [sensors EXCEPT ![Entity[idx]] = get_next_value(@, r)]
    /\ value' = returned_value(sensors[Entity[idx]], r)
    /\ inserted' = ret
    /\ idx' = IF idx < 4 THEN idx + 1 ELSE idx
    /\ pc' = IF idx < 4 THEN "insert" ELSE "sleep"
    /\ UNCHANGED <<prog, now, interrupted, current_state, current_hour,
                   readings, result>>

\* insert_reading: agent.update_raw answered
InsertOk ==
    /\ pc = "insert"
    /\ \E r \in UniformDraws : insert_line(r, "result")

\* insert_reading: an Exception inside the try block, so it returns None
InsertFail ==
    /\ pc = "insert"
    /\ \E r \in UniformDraws : insert_line(r, "None")

\* time.sleep(300)
MainSleep ==
    /\ prog = "auto"
    /\ pc = "sleep"
    /\ now' = now + 1
    /\ pc' = "loop"
    /\ UNCHANGED <<prog, interrupted, current_state, current_hour, readings,
                   result, sensors, idx, value, inserted>>

\* KeyboardInterrupt: main does not catch it and the script ends
MainInterrupt ==
    /\ prog = "auto"
    /\ pc \in {"insert", "sleep"}
    /\ interrupted' = TRUE
    /\ pc' = "done"
    /\ UNCHANGED <<prog, now, current_state, current_hour, readings, result,
                   sensors, idx, value, inserted>>

----------------------------------------------------------------------------
(* a HydroponicDataSensor on its own *)

\* HydroponicDataSensor(base_value, min_value, max_value, volatility)
Construct ==
    /\ prog = "sensor"
    /\ pc = "loop"
    /\ \E b \in SensorBases, lo \in SensorMins, hi \in SensorMaxs,
          v \in SensorVolatilities :
          sensors' = [e \in {"probe"} |-> sensor_init(b, lo, hi, v)]
    /\ pc' = "call"
    /\ UNCHANGED <<prog, now, interrupted, current_state, current_hour,
                   readings, result, idx, value, inserted>>

\* sensor.get_next_value()
GetNextValue ==
    /\ pc = "call"
    /\ sensors["probe"].time_index < MaxCalls
    /\ \E r \in UniformDraws :
          /\ sensors' = [sensors EXCEPT !["probe"] = get_next_value(@, r)]
          /\ value' = returned_value(sensors["probe"], r)
    /\ UNCHANGED <<prog, pc, now, interrupted, current_state, current_hour,
                   readings, result, idx, inserted>>

Next ==
    \/ LoopTest
    \/ DailyCycle
    \/ RandomDrift
    \/ Correlations
    \/ Emit
    \/ SendOk
    \/ SendFail
    \/ Sleep
    \/ Interrupt
    \/ MainLoopTest
    \/ InsertOk
    \/ InsertFail
    \/ MainSleep
    \/ MainInterrupt
    \/ Construct
    \/ GetNextValue

Spec == Init /\ [][Next]_vars

----------------------------------------------------------------------------
(* Properties *)

InLimits(p) ==
    /\ limits[p].min <= current_state[p]
    /\ current_state[p] <= limits[p].max

\* C1: when a tick of generate_reading has returned (and until the next tick
\* starts), every one of the six parameters of current_state lies within
\* limits[param].min .. limits[param].max.
C1_BoundsAfterTick ==
    (prog = "motoko" /\ pc \in {"send", "sleep", "loop"})
        => \A p \in Params : InLimits(p)

\* a tick after the first has returned at a night hour with light clamped up
\* to its minimum
C1_Witness ==
    /\ prog = "motoko" /\ pc = "send" /\ now >= 1
    /\ current_hour = 0
    /\ current_state.light = limits.light.min
    /\ current_state.ec = limits.ec.max

\* the parameters each stage of a tick writes, by the position after it
Written(at) ==
    CASE at = "drift" -> {"light", "air_temp", "water_temp", "humidity"}
      [] at = "corr" -> Params
      [] at = "emit" -> {"ph", "humidity"}
      [] OTHER -> {}

\* C2: immediately after each stage of a tick (_apply_daily_cycle,
\* _apply_random_drift, _apply_correlations) every parameter the stage wrote
\* is within its registered limits, the oscillator's night light included.
C2_BoundsAfterEveryStage ==
    prog = "motoko" => \A p \in Written(pc) : InLimits(p)

\* C3: a failing send_reading leaves current_state as generate_reading left
\* it, and nothing changes it before the next tick's first stage: no step
\* taken between the return of generate_reading and the next tick changes
\* current_state.
C3_DispatchFailureKeepsState ==
    [][(prog = "motoko" /\ pc \in {"send", "sleep", "loop"})
          => current_state' = current_state]_vars

\* a dispatch has just failed on a state that a tick computed
C3_Witness ==
    /\ prog = "motoko" /\ pc = "sleep"
    /\ result.success = FALSE
    /\ current_state # InitialState
    /\ readings = make_readings(current_state)

\* C4: a dispatch failure never aborts the run.  A step leaves a loop only
\* with the clock at end_time or by a KeyboardInterrupt; a send or insert
\* that is not interrupted hands the loop a value (success with data, failure
\* with an error, a result or None) and the loop goes on to its sleep or next
\* insert; after the sleep the loop test runs, and with the clock before
\* end_time it starts a further tick.
C4_DispatchFailureNeverAborts ==
    [][ /\ (pc # "done" /\ pc' = "done") => (now >= EndTime \/ interrupted')
        /\ (prog = "motoko" /\ pc = "send" /\ ~interrupted')
              => /\ pc' = "sleep"
                 /\ \/ (result'.success /\ "data" \in DOMAIN result')
                    \/ (~result'.success /\ "error" \in DOMAIN result')
        /\ (prog = "auto" /\ pc = "insert" /\ ~interrupted')
              => /\ pc' \in {"insert", "sleep"}
                 /\ inserted' \in {"result", "None"}
        /\ (prog \in {"motoko", "auto"} /\ pc = "sleep" /\ ~interrupted')
              => pc' = "loop"
        /\ (prog = "motoko" /\ pc = "loop" /\ now < EndTime) => pc' = "cycle"
        /\ (prog = "auto" /\ pc = "loop" /\ now < EndTime) => pc' = "insert"
      ]_vars

\* a failed dispatch has been reported as a value with the run still going
\* and time left for a further tick
C4_Witness ==
    /\ prog = "motoko" /\ pc = "sleep" /\ ~interrupted
    /\ ~result.success /\ result.error = "exception"
    /\ now + 1 < EndTime

\* C5: a sensor whose min_value exceeds its max_value is never constructed.
C5_MalformedBoundsRejected ==
    \A e \in DOMAIN sensors : sensors[e].min_value <= sensors[e].max_value

\* C6: a sensor with min_value <= max_value that has answered at least one
\* get_next_value holds a current_value within min_value .. max_value,
\* whatever its base_value and volatility.
C6_SensorClamped ==
    \A e \in DOMAIN sensors :
        (sensors[e].min_value <= sensors[e].max_value /\ sensors[e].time_index >= 1)
            => /\ sensors[e].min_value <= sensors[e].current_value
               /\ sensors[e].current_value <= sensors[e].max_value

\* a sensor with volatility three times max - min, built with a base_value
\* below min_value, sits at max_value after two calls
C6_Witness ==
    /\ prog = "sensor" /\ pc = "call"
    /\ sensors["probe"].volatility > sensors["probe"].max_value - sensors["probe"].min_value
    /\ sensors["probe"].min_value < sensors["probe"].max_value
    /\ sensors["probe"].base_value < sensors["probe"].min_value
    /\ sensors["probe"].time_index >= 2
    /\ sensors["probe"].current_value = sensors["probe"].max_value

CanonicalTypes ==
    <<"ec", "ph", "water_temperature", "air_temperature", "humidity", "light">>

CanonicalUnits == <<"mS/cm", "pH", "C", "C", "%", "PPFD">>

StateKeys == <<"ec", "ph", "water_temp", "air_temp", "humidity", "light">>

SnapshotShape ==
    /\ Len(readings) = 6
    /\ \A i \in 1..6 :
          /\ readings[i].readingType = CanonicalTypes[i]
          /\ readings[i].readingUnit = CanonicalUnits[i]
          /\ readings[i].readingUnit # ""

\* C7 as stated: the Snapshot generate_reading returns has the six readings
\* in canonical order with their units, and each readingValue is the value
\* current_state holds for it.
C7_SnapshotIsState ==
    (prog = "motoko" /\ pc = "send")
        => /\ SnapshotShape
           /\ \A i \in 1..6 : readings[i].readingValue = current_state[StateKeys[i]]

\* C7 amended: the Snapshot generate_reading returns has the six readings in
\* canonical order with their units, and each readingValue is the value
\* current_state holds for it rounded to two decimal places: a multiple of
\* 0.01 at most 0.005 away from it.
C7_SnapshotIsRoundedState ==
    (prog = "motoko" /\ pc = "send")
        => /\ SnapshotShape
           /\ \A i \in 1..6 :
                 LET v == readings[i].readingValue
                     x == current_state[StateKeys[i]]
                 IN  /\ v % (Scale \div 100) = 0
                     /\ 2 * (v - x) <= Scale \div 100
                     /\ 2 * (x - v) <= Scale \div 100

\* a returned Snapshot whose air temperature differs from the state's by the
\* rounding
C7_Witness ==
    /\ prog = "motoko" /\ pc = "send"
    /\ Len(readings) = 6
    /\ readings[4].readingValue # current_state.air_temp
    /\ readings[3].readingValue # readings[4].readingValue

\* C9: right after _apply_daily_cycle, light is 500 + 400 sin(pi ((hour - 6)
\* mod 24) / 12) for 6 <= hour < 18, which is 900 at hour 12, and within
\* 0 .. 10 at every other hour: a function of the hour and the night draw,
\* not of the light of the previous tick.
C9_PreDriftLight ==
    (prog = "motoko" /\ pc = "drift")
        => /\ (6 <= current_hour /\ current_hour < 18)
                 => current_state.light =
                       5000000 + 4000 * Sin12[((current_hour - 6) % 24) + 1]
           /\ current_hour = 12 => current_state.light = 9000000
           /\ ~(6 <= current_hour /\ current_hour < 18)
                 => (0 <= current_state.light /\ current_state.light <= 100000)

\* the oscillator has run at noon of a tick after the first
C9_Witness ==
    /\ prog = "motoko" /\ pc = "drift" /\ now >= 1
    /\ current_hour = 12
    /\ current_state.light = 9000000

\* C10: _apply_correlations moves ph by (ec - 1.5) * -0.1 and clamps it to
\* 5.5 .. 6.5: with ec = 1.5 ph stays, with ec = 2.5 the move is -0.1, with
\* ec > 1.5 ph does not rise; ec and air_temp stay.
C10_PhCorrelation ==
    [][(prog = "motoko" /\ pc = "corr" /\ pc' = "emit")
          => LET ec == current_state.ec
                 ph == current_state.ph
                 delta == (15000 - ec) \div 10
             IN  /\ (15000 - ec) % 10 = 0
                 /\ current_state'.ph = Max(55000, Min(65000, ph + delta))
                 /\ ec = 15000 => current_state'.ph = ph
                 /\ ec = 25000 => (delta = -1000 /\
                                   current_state'.ph = Max(55000, ph - 1000))
                 /\ ec > 15000 => current_state'.ph <= ph
                 /\ current_state'.ec = ec
                 /\ current_state'.air_temp = current_state.air_temp
      ]_vars

\* the correlation stage has run with ec = 2.5 and left ph above its minimum
C10_Witness ==
    /\ prog = "motoko" /\ pc = "emit"
    /\ current_state.ec = 25000
    /\ current_state.ph > 55000
    /\ current_state.ph < 60000

\* C11: the step of _apply_daily_cycle sets light, air_temp, water_temp and
\* humidity to values given by the hour it was called with (light at night:
\* by the draw, within 0 .. 10) whatever they held before, and leaves ec and
\* ph as they were.
C11_OscillatorOverwrites ==
    [][(prog = "motoko" /\ pc = "cycle" /\ pc' = "drift")
          => LET h == current_hour'
                 dp == (h - 6) % 24
             IN  /\ h \in 0..23
                 /\ current_state'.ec = current_state.ec
                 /\ current_state'.ph = current_state.ph
                 /\ current_state'.air_temp =
                       250000 + 30 * Sin12[((dp - 2) % 24) + 1]
                 /\ current_state'.water_temp =
                       220000 + 20 * Sin12[((dp - 4) % 24) + 1]
                 /\ current_state'.humidity = 600000 - 50 * Sin12[dp + 1]
                 /\ (6 <= h /\ h < 18)
                       => current_state'.light = 5000000 + 4000 * Sin12[dp + 1]
                 /\ ~(6 <= h /\ h < 18)
                       => current_state'.light \in 0..100000
      ]_vars

\* the oscillator has run at hour 14 of a later tick, on a state whose ec and
\* ph earlier ticks moved and whose air_temp the previous tick left elsewhere
C11_Witness ==
    /\ prog = "motoko" /\ pc = "drift" /\ now >= 2
    /\ current_hour = 14
    /\ current_state.air_temp = 280000
    /\ current_state.water_temp = 237320
    /\ current_state.ec = 25000
    /\ current_state.ph = limits.ph.min

====
